---- MODULE Spec2Model ----
(***************************************************************************)
(* taskflow: the session-cookie authentication, the three-table store and  *)
(* the task CRUD handlers of server.mjs / db.mjs / auth.mjs, as a state    *)
(* machine.  One action per HTTP handler; a handler that awaits the        *)
(* request body after it has authenticated (POST /api/tasks, PATCH         *)
(* /api/tasks/:id) is two steps, because other requests run at the await.  *)
(*                                                                         *)
(* Strings are sequences of one-character strings, so that trim(),         *)
(* toLowerCase() and length are computed.  Times are whole days since the  *)
(* server started; an ISO timestamp is the record [iso |-> t].             *)
(***************************************************************************)
EXTENDS Integers, Sequences, FiniteSets, TLC

\* ------------------------------------------------------------------ bounds

\* How many sessions are created (by signup and login together).
MaxSessions == 2

\* How many tasks are created.
MaxTasks == 2

\* The clock stops advancing here.
MaxTime == 7

\* How many requests may wait for their body at the same time.
MaxInflight == 1

\* How many requests the file-backed variant of the server receives.
MaxFileRequests == 3

\* ------------------------------------------------------- program constants

\* addDaysIso(7): the lifetime of a session.
SessionDays == 7

\* password.length < 8 is rejected by signup.
MinPasswordLen == 8

\* crypto.scryptSync(password, salt, 32): the digest length in bytes.
KeyLen == 32

\* ------------------------------------------------------------------ strings

IsSpace(c) == c = " "

LowerOf(c) ==
  CASE c = "A" -> "a"
    [] c = "B" -> "b"
    [] c = "X" -> "x"
    [] OTHER -> c

RECURSIVE toLowerCase(_)
toLowerCase(s) ==
  IF s = <<>> THEN <<>> ELSE <<LowerOf(Head(s))>> \o toLowerCase(Tail(s))

RECURSIVE trimStart(_)
trimStart(s) ==
  IF s # <<>> /\ IsSpace(Head(s)) THEN trimStart(Tail(s)) ELSE s

RECURSIVE trimEnd(_)
trimEnd(s) ==
  IF s # <<>> /\ IsSpace(s[Len(s)]) THEN trimEnd(SubSeq(s, 1, Len(s) - 1)) ELSE s

\* Mutant: only the leading white space is removed.
trim_StartOnly(s) == trimStart(s)

trim(s) == trimEnd(trimStart(s))

\* ------------------------------------------------------------- JSON values

JStr(s) == [type |-> "string", str |-> s, bool |-> FALSE]
JBool(b) == [type |-> "boolean", str |-> <<>>, bool |-> b]
JNum == [type |-> "number", str |-> <<>>, bool |-> FALSE]
JUndefined == [type |-> "undefined", str |-> <<>>, bool |-> FALSE]

\* The request bodies a client sends.  kind "json" is a JSON object with the
\* four fields (a missing field is undefined); "empty" is a body of no bytes;
\* "malformed" is text JSON.parse rejects; "toolarge" is more than 1 MiB.
JsonBody(e, p, t, d) ==
  [kind |-> "json", email |-> e, password |-> p, title |-> t, done |-> d]
EmptyBody == [kind |-> "empty", email |-> JUndefined, password |-> JUndefined,
              title |-> JUndefined, done |-> JUndefined]
MalformedBody == [EmptyBody EXCEPT !.kind = "malformed"]
TooLargeBody == [EmptyBody EXCEPT !.kind = "toolarge"]

\* readJsonBody: null for an empty body, the parsed value otherwise; it throws
\* on a body over the limit and on text that is not JSON.
readJsonBody(raw) ==
  CASE raw.kind = "toolarge" ->
         [threw |-> TRUE, msg |-> "body too large", value |-> EmptyBody]
    [] raw.kind = "malformed" ->
         [threw |-> TRUE, msg |-> "Unexpected token in JSON", value |-> EmptyBody]
    [] raw.kind = "empty" ->
         [threw |-> FALSE, msg |-> "", value |-> EmptyBody]
    [] OTHER ->
         [threw |-> FALSE, msg |-> "", value |-> raw]

\* ------------------------------------------------------------------ inputs

EmailA == <<"a", "@", "x">>
EmailAShouted == <<" ", "A", "@", "X", " ">>
EmailB == <<"b", "@", "x">>
Blank == <<" ">>

PwGood == <<"p", "a", "s", "s", "w", "o", "r", "d">>
PwNear == <<"p", "a", "s", "s", "w", "o", "r">>
PwShort == <<"p", "a", "s", "s">>

TitleHi == <<" ", "h", "i", " ">>

EmailInputs == {JStr(EmailA), JStr(EmailAShouted), JStr(EmailB), JStr(Blank),
                JUndefined}
PasswordInputs == {JStr(PwGood), JStr(PwNear), JStr(PwShort), JStr(<<>>), JNum}
TitleInputs == {JStr(TitleHi), JStr(Blank), JUndefined}
DoneInputs == {JBool(TRUE), JBool(FALSE), JStr(<<"1">>), JUndefined}

\* Bodies for signup and login: every email with the good password, every
\* password with one email, and the bodies that are no JSON object.
CredentialBodies ==
  {JsonBody(e, JStr(PwGood), JUndefined, JUndefined) : e \in EmailInputs}
    \cup {JsonBody(JStr(EmailAShouted), p, JUndefined, JUndefined) : p \in PasswordInputs}
    \cup {EmptyBody, MalformedBody, TooLargeBody}
TitleBodies ==
  {JsonBody(JUndefined, JUndefined, t, JUndefined) : t \in TitleInputs}
    \cup {EmptyBody, MalformedBody, TooLargeBody}
DoneBodies ==
  {JsonBody(JUndefined, JUndefined, JUndefined, d) : d \in DoneInputs}
    \cup {EmptyBody, MalformedBody, TooLargeBody}

\* crypto.randomUUID(): a value no other call returned.  The model names a
\* UUID by what it was generated for and a serial number.
Uuid(kind, n) == <<kind, n>>

\* cookies.sid when the request has no sid cookie, or an empty one: falsy.
NoSid == <<>>

\* A UUID the server never generated.
NeverIssued == Uuid("none", 0)

\* ------------------------------------------------------------------- time

\* How far the clock moves between two requests: to the last day of a session
\* created now, or to the day it expires.
TickDays == {SessionDays - 1, SessionDays}

Iso(t) == [iso |-> t]

NaN == "NaN"

\* Date.parse of a stored timestamp: the time of an ISO string, NaN otherwise.
DateParse(s) == IF DOMAIN s = {"iso"} THEN s.iso ELSE NaN

NumberIsFinite(x) == x \in Int

\* ---------------------------------------------------------------- auth.mjs

\* scrypt is taken to be collision-free: the digest names its inputs.
hashPassword(password, saltHex) ==
  [len |-> KeyLen, digest |-> <<password, saltHex>>]

\* randomHex(16): 128 random bits, a value no earlier call returned.  seed is
\* what tells this call from the others.
randomHex(seed) == <<"salt", seed>>

makePassword(password, seed) ==
  LET salt == randomHex(seed)
  IN [salt |-> salt, passwordHash |-> hashPassword(password, salt)]

\* Mutant: the lengths are compared, the bytes are not.
safeEqualHex_LengthOnly(aHex, bHex) == aHex.len = bHex.len

safeEqualHex(aHex, bHex) ==
  IF aHex.len # bHex.len THEN FALSE ELSE aHex.digest = bHex.digest

\* ------------------------------------------------------------------- state

VARIABLES
  users,      \* table users: a set of rows (id PRIMARY KEY, email UNIQUE)
  sessions,   \* table sessions: a set of rows (id PRIMARY KEY)
  tasks,      \* table tasks: the rows in rowid (insertion) order
  now,        \* Date.now(), in days
  nextId,     \* the serial numbers of the next user, session and task UUID
  inflight,   \* the requests that authenticated and now await their body
  revoked,    \* history: <<sid, why>> of every session getAuth rejected as
              \* expired or logout deleted
  signedUp,   \* history: <<sid, user id>> of every signup answered 201
  written,    \* history: per task id, by: the user whose session created it,
              \* done: the value of the latest PATCH answered 200 (FALSE, the
              \* value it was created with, before any)
  fileArrays, \* file-backed variant: the arrays its handlers created, by
              \* reference (an index), with what each holds now
  fileTasks,  \* file-backed variant: the global `tasks`, a reference
  tasksJson,  \* file-backed variant: data/tasks.json as loadTasks reads it
  tasksTmp,   \* file-backed variant: data/tasks.json.tmp, <<>> when absent,
              \* <<content>> otherwise
  fileReqs    \* file-backed variant: the requests received, with where each
              \* handler stands and what it answered

\* The state of the SQLite-backed server and of the file-backed variant: two
\* programs, of which a behaviour runs one.
mainVars == <<users, sessions, tasks, now, nextId, inflight, revoked,
              signedUp, written>>

fileVars == <<fileArrays, fileTasks, tasksJson, tasksTmp, fileReqs>>

vars == <<mainVars, fileVars>>

store == <<users, sessions, tasks>>

\* ------------------------------------------------------------------ db.mjs

UniqueEmailError == "UNIQUE constraint failed: users.email"

\* Mutant: the users table without UNIQUE(email).
createUser_NoUnique(u) == [threw |-> FALSE, msg |-> "", users |-> users \cup {u}]

\* Mutant: INSERT OR REPLACE INTO users, the row with the email is replaced.
createUser_OrReplace(u) ==
  [threw |-> FALSE, msg |-> "",
   users |-> {r \in users : r.email # u.email} \cup {u}]

\* INSERT INTO users: the UNIQUE(email) constraint throws on a second row.
createUser(u) ==
  IF \E r \in users : r.email = u.email
    THEN [threw |-> TRUE, msg |-> UniqueEmailError, users |-> users]
    ELSE [threw |-> FALSE, msg |-> "", users |-> users \cup {u}]

\* SELECT ... FROM users WHERE email = ?: <<>> is null.
getUserByEmail(email) ==
  IF \E r \in users : r.email = email
    THEN <<CHOOSE r \in users : r.email = email>>
    ELSE <<>>

\* Mutant: the SELECT without its WHERE id = ?.
getUserPublicById_Any(userId) ==
  IF users # {}
    THEN LET r == CHOOSE x \in users : \A y \in users : x.id[2] <= y.id[2]
         IN <<[id |-> r.id, email |-> r.email, createdAt |-> r.createdAt]>>
    ELSE <<>>

getUserPublicById(userId) ==
  IF \E r \in users : r.id = userId
    THEN LET r == CHOOSE x \in users : x.id = userId
         IN <<[id |-> r.id, email |-> r.email, createdAt |-> r.createdAt]>>
    ELSE <<>>

\* Mutant: one session per user, the INSERT replaces the user's other rows.
createSession_OnePerUser(s) == {r \in sessions : r.userId # s.userId} \cup {s}

createSession(s) == sessions \cup {s}

getSession(sid) ==
  IF \E r \in sessions : r.id = sid
    THEN <<CHOOSE r \in sessions : r.id = sid>>
    ELSE <<>>

\* Mutant: the DELETE removes nothing.
deleteSession_Noop(sid) == sessions

deleteSession(sid) == {r \in sessions : r.id # sid}

\* A row of tasks as the API returns it: done is INTEGER in the table.
TaskOfRow(r) ==
  [id |-> r.id, userId |-> r.userId, title |-> r.title,
   done |-> (r.done = 1), createdAt |-> r.createdAt]

RECURSIVE InsertDesc(_, _)
InsertDesc(row, sorted) ==
  IF sorted = <<>> THEN <<row>>
  ELSE IF Head(sorted).createdAt.iso >= row.createdAt.iso
    THEN <<Head(sorted)>> \o InsertDesc(row, Tail(sorted))
    ELSE <<row>> \o sorted

\* Mutant: the SELECT without ORDER BY, the rows in rowid order.
OrderByCreatedAtDesc_Rowid(rows) == rows

\* ORDER BY createdAt DESC; rows of one createdAt stay in rowid order.
RECURSIVE OrderByCreatedAtDesc(_)
OrderByCreatedAtDesc(rows) ==
  IF rows = <<>> THEN <<>>
  ELSE InsertDesc(rows[Len(rows)],
                  OrderByCreatedAtDesc(SubSeq(rows, 1, Len(rows) - 1)))

RECURSIVE MapTasks(_)
MapTasks(rows) ==
  IF rows = <<>> THEN <<>> ELSE <<TaskOfRow(Head(rows))>> \o MapTasks(Tail(rows))

\* Mutant: the SELECT without its WHERE userId = ?.
listTasksByUser_NoFilter(userId) == MapTasks(OrderByCreatedAtDesc(tasks))

\* SELECT ... FROM tasks WHERE userId = ? ORDER BY createdAt DESC.
listTasksByUser(userId) ==
  LET Mine(r) == r.userId = userId
  IN MapTasks(OrderByCreatedAtDesc(SelectSeq(tasks, Mine)))

\* Mutant: the INSERT stores done = 1 whatever the task says.
insertTask_DoneOne(t) ==
  Append(tasks, [id |-> t.id, userId |-> t.userId, title |-> t.title,
                 done |-> 1, createdAt |-> t.createdAt])

insertTask(t) ==
  Append(tasks, [id |-> t.id, userId |-> t.userId, title |-> t.title,
                 done |-> IF t.done THEN 1 ELSE 0, createdAt |-> t.createdAt])

\* Mutant: WHERE id = ? alone, the ownership predicate forgotten.
MatchIdUser_IdOnly(r, id, userId) == r.id = id

\* The rows a statement with WHERE id = ? AND userId = ? touches.
MatchIdUser(r, id, userId) == r.id = id /\ r.userId = userId

\* Mutant: the UPDATE also stamps the row, SET done = ?, createdAt = now.
RECURSIVE UpdateDone_TouchesCreatedAt(_, _, _, _)
UpdateDone_TouchesCreatedAt(rows, id, userId, done) ==
  IF rows = <<>> THEN <<>>
  ELSE <<IF MatchIdUser(Head(rows), id, userId)
           THEN [Head(rows) EXCEPT !.done = IF done THEN 1 ELSE 0,
                                   !.createdAt = Iso(now)]
           ELSE Head(rows)>> \o UpdateDone_TouchesCreatedAt(Tail(rows), id, userId, done)

RECURSIVE UpdateDone(_, _, _, _)
UpdateDone(rows, id, userId, done) ==
  IF rows = <<>> THEN <<>>
  ELSE <<IF MatchIdUser(Head(rows), id, userId)
           THEN [Head(rows) EXCEPT !.done = IF done THEN 1 ELSE 0]
           ELSE Head(rows)>> \o UpdateDone(Tail(rows), id, userId, done)

\* Mutant: changes counts only the rows whose value the UPDATE altered.
UpdateChanges_OnlyChanged(userId, id, done) ==
  Cardinality({i \in 1 .. Len(tasks) :
                 /\ MatchIdUser(tasks[i], id, userId)
                 /\ tasks[i].done # (IF done THEN 1 ELSE 0)})

\* What run() reports as changes for the UPDATE: SQLite counts the rows the
\* WHERE matched, also when the value written is the value the row had.
UpdateChanges(userId, id, done) ==
  Cardinality({i \in 1 .. Len(tasks) : MatchIdUser(tasks[i], id, userId)})

\* UPDATE tasks SET done = ? WHERE id = ? AND userId = ?, then the row read back.
setDone(userId, id, done) ==
  LET changes == UpdateChanges(userId, id, done)
      updated == UpdateDone(tasks, id, userId, done)
      Hit(r) == MatchIdUser(r, id, userId)
      rows == SelectSeq(updated, Hit)
  IN IF changes = 0 THEN [task |-> <<>>, tasks |-> updated]
     ELSE IF rows = <<>> THEN [task |-> <<>>, tasks |-> updated]
     ELSE [task |-> <<TaskOfRow(rows[1])>>, tasks |-> updated]

\* Mutant: DELETE FROM tasks WHERE userId = ?, the id forgotten.
deleteTask_AllOfUser(userId, id) ==
  LET Keep(r) == r.userId # userId
      kept == SelectSeq(tasks, Keep)
  IN [ok |-> Len(kept) < Len(tasks), tasks |-> kept]

\* DELETE FROM tasks WHERE id = ? AND userId = ?.
deleteTask(userId, id) ==
  LET Keep(r) == ~MatchIdUser(r, id, userId)
      kept == SelectSeq(tasks, Keep)
  IN [ok |-> Len(kept) < Len(tasks), tasks |-> kept]

\* -------------------------------------------------------------- server.mjs

NoResp ==
  [status |-> 0, ctype |-> "", error |-> "", text |-> "", ok |-> FALSE,
   user |-> <<>>, tasks |-> <<>>, task |-> <<>>, setCookie |-> <<>>]

\* json(res, status, obj) for each shape of obj the handlers send.
JsonError(status, msg) ==
  [NoResp EXCEPT !.status = status, !.ctype = "application/json", !.error = msg]
JsonUser(status, u) ==
  [NoResp EXCEPT !.status = status, !.ctype = "application/json", !.user = <<u>>]
JsonOk(status) ==
  [NoResp EXCEPT !.status = status, !.ctype = "application/json", !.ok = TRUE]
JsonTasks(status, ts) ==
  [NoResp EXCEPT !.status = status, !.ctype = "application/json", !.tasks = ts]
JsonTask(status, t) ==
  [NoResp EXCEPT !.status = status, !.ctype = "application/json", !.task = <<t>>]

sendText(status, text) ==
  [NoResp EXCEPT !.status = status, !.ctype = "text/plain", !.text = text]

notFound == sendText(404, "not found")

unauthorized == JsonError(401, "unauthorized")

\* res.writeHead(204); res.end()
NoContent == [NoResp EXCEPT !.status = 204]

\* setCookie(res, "sid", value, opts): maxAge is <<>> when opts has none.
setCookie(resp, value, maxAge) ==
  [resp EXCEPT !.setCookie = <<[name |-> "sid", value |-> value, maxAge |-> maxAge]>>]

nowIso == Iso(now)

\* Mutant: d.setDate(days), the day of the month not added to.
addDaysIso_SetDateOnly(days) == Iso(days)

addDaysIso(days) == Iso(now + days)

\* The handlers' catch block: json(res, 500, { error: msg }).
Caught(msg) == JsonError(500, msg)

\* msg.includes(word), for the messages the store throws.
MsgIncludes(msg, word) ==
  msg = UniqueEmailError /\ word \in {"UNIQUE", "users.email"}

\* Mutant: expiresAt is not looked at.
getAuth_NoExpiry(sid) ==
  IF sid = NoSid \/ getSession(sid) = <<>>
    THEN [auth |-> <<>>, sessions |-> sessions, calls |-> {"getSession"},
          expired |-> FALSE]
    ELSE [auth |-> <<[userId |-> getSession(sid)[1].userId, sid |-> sid]>>,
          sessions |-> sessions, calls |-> {"getSession"}, expired |-> FALSE]

\* getAuth(req): auth is <<>> for null, sessions is the table it leaves.
getAuth(sid) ==
  IF sid = NoSid
    THEN [auth |-> <<>>, sessions |-> sessions, calls |-> {}, expired |-> FALSE]
  ELSE LET session == getSession(sid)
       IN IF session = <<>>
            THEN [auth |-> <<>>, sessions |-> sessions, calls |-> {"getSession"},
                  expired |-> FALSE]
          ELSE LET exp == DateParse(session[1].expiresAt)
               IN IF ~NumberIsFinite(exp) \/ exp <= now
                    THEN [auth |-> <<>>, sessions |-> deleteSession(sid),
                          calls |-> {"getSession", "deleteSession"}, expired |-> TRUE]
                    ELSE [auth |-> <<[userId |-> session[1].userId, sid |-> sid]>>,
                          sessions |-> sessions, calls |-> {"getSession"},
                          expired |-> FALSE]

\* What a handler leaves: the tables, the UUID source, the response, the
\* storage operations it called.
Out(u, s, t, n, resp, calls) ==
  [users |-> u, sessions |-> s, tasks |-> t, nextId |-> n, resp |-> resp,
   calls |-> calls]

Same(resp, calls) == Out(users, sessions, tasks, nextId, resp, calls)

\* What a storage call throws when the engine fails (disk full, I/O error,
\* database locked): an Error that is no constraint violation.
StorageError == "disk I/O error"

\* The storage call of signup that fails, if one does.
StorageFaults == {"none", "createUser", "createSession"}

\* POST /api/signup.  Everything after the body has arrived runs without an
\* await, so the handler is one step taken when the body is complete.  fault
\* names the storage call that throws StorageError in this request.
signupOnFault(raw, fault) ==
  LET body == readJsonBody(raw)
      email == body.value.email
      password == body.value.password
  IN IF body.threw THEN Same(Caught(body.msg), {})
     ELSE IF email.type # "string" \/ trim(email.str) = <<>>
       THEN Same(JsonError(400, "email is required"), {})
     ELSE IF password.type # "string" \/ Len(password.str) < MinPasswordLen
       THEN Same(JsonError(400, "password must be at least 8 chars"), {})
     ELSE
       LET mp == makePassword(password.str, nextId.user)
           user == [id |-> Uuid("user", nextId.user), email |-> toLowerCase(trim(email.str)),
                    passwordHash |-> mp.passwordHash, salt |-> mp.salt,
                    createdAt |-> nowIso]
           made == IF fault = "createUser"
                     THEN [threw |-> TRUE, msg |-> StorageError, users |-> users]
                     ELSE createUser(user)
           sid == Uuid("session", nextId.session)
       IN IF made.threw
            THEN IF MsgIncludes(made.msg, "UNIQUE") /\ MsgIncludes(made.msg, "users.email")
                   THEN Same(JsonError(409, "email already exists"), {"createUser"})
                   ELSE Same(JsonError(500, "failed to create user"), {"createUser"})
          ELSE IF fault = "createSession"
            THEN Out(made.users, sessions, tasks,
                     [nextId EXCEPT !.user = @ + 1, !.session = @ + 1],
                     Caught(StorageError), {"createUser", "createSession"})
          ELSE Out(made.users,
                   createSession([id |-> sid, userId |-> user.id,
                                  createdAt |-> nowIso,
                                  expiresAt |-> addDaysIso(SessionDays)]),
                   tasks,
                   [nextId EXCEPT !.user = @ + 1, !.session = @ + 1],
                   setCookie(JsonUser(201, [id |-> user.id, email |-> user.email,
                                            createdAt |-> user.createdAt]),
                             sid, <<>>),
                   {"createUser", "createSession"})

\* POST /api/signup when the storage engine works.
signup(raw) == signupOnFault(raw, "none")

\* Mutant: an unknown email gets an answer of its own.
login_NamesUnknownEmail(raw) ==
  LET body == readJsonBody(raw)
      email == body.value.email
      password == body.value.password
  IN IF body.threw THEN Same(Caught(body.msg), {})
     ELSE IF email.type # "string" \/ trim(email.str) = <<>>
       THEN Same(JsonError(400, "email is required"), {})
     ELSE IF password.type # "string" \/ password.str = <<>>
       THEN Same(JsonError(400, "password is required"), {})
     ELSE
       LET user == getUserByEmail(toLowerCase(trim(email.str)))
       IN IF user = <<>>
            THEN Same(JsonError(404, "no such user"), {"getUserByEmail"})
          ELSE IF ~safeEqualHex(hashPassword(password.str, user[1].salt),
                                user[1].passwordHash)
            THEN Same(JsonError(401, "invalid credentials"), {"getUserByEmail"})
          ELSE Out(users,
                   createSession([id |-> Uuid("session", nextId.session),
                                  userId |-> user[1].id,
                                  createdAt |-> nowIso,
                                  expiresAt |-> addDaysIso(SessionDays)]),
                   tasks, [nextId EXCEPT !.session = @ + 1],
                   setCookie(JsonOk(200), Uuid("session", nextId.session), <<>>),
                   {"getUserByEmail", "createSession"})

\* POST /api/login.
login(raw) ==
  LET body == readJsonBody(raw)
      email == body.value.email
      password == body.value.password
  IN IF body.threw THEN Same(Caught(body.msg), {})
     ELSE IF email.type # "string" \/ trim(email.str) = <<>>
       THEN Same(JsonError(400, "email is required"), {})
     ELSE IF password.type # "string" \/ password.str = <<>>
       THEN Same(JsonError(400, "password is required"), {})
     ELSE
       LET user == getUserByEmail(toLowerCase(trim(email.str)))
       IN IF user = <<>>
            THEN Same(JsonError(401, "invalid credentials"), {"getUserByEmail"})
          ELSE IF ~safeEqualHex(hashPassword(password.str, user[1].salt),
                                user[1].passwordHash)
            THEN Same(JsonError(401, "invalid credentials"), {"getUserByEmail"})
          ELSE Out(users,
                   createSession([id |-> Uuid("session", nextId.session),
                                  userId |-> user[1].id,
                                  createdAt |-> nowIso,
                                  expiresAt |-> addDaysIso(SessionDays)]),
                   tasks, [nextId EXCEPT !.session = @ + 1],
                   setCookie(JsonOk(200), Uuid("session", nextId.session), <<>>),
                   {"getUserByEmail", "createSession"})

\* Mutant: logout clears the cookie and leaves the row.
logout_KeepsSession(sid) == Same(setCookie(NoContent, <<>>, <<0>>), {})

\* Mutant: logout goes through getAuth first, like the task handlers.
logout_RequiresSession(sid) ==
  IF getAuth(sid).auth = <<>>
    THEN Out(users, getAuth(sid).sessions, tasks, nextId, unauthorized,
             getAuth(sid).calls)
    ELSE Out(users, deleteSession(sid), tasks, nextId,
             setCookie(NoContent, <<>>, <<0>>), {"deleteSession"})

\* POST /api/logout.
logout(sid) ==
  IF sid # NoSid
    THEN Out(users, deleteSession(sid), tasks, nextId,
             setCookie(NoContent, <<>>, <<0>>), {"deleteSession"})
    ELSE Same(setCookie(NoContent, <<>>, <<0>>), {})

\* The first lines of every authenticated handler:
\*   const auth = getAuth(req); if (!auth) return unauthorized(res);
\* resp is NoResp when the handler goes on.
requireAuth(sid) ==
  LET a == getAuth(sid)
  IN Out(users, a.sessions, tasks, nextId,
         IF a.auth = <<>> THEN unauthorized ELSE NoResp, a.calls)

\* GET /api/me.
me(sid) ==
  LET a == getAuth(sid)
      r == requireAuth(sid)
  IN IF a.auth = <<>> THEN r
     ELSE LET user == getUserPublicById(a.auth[1].userId)
          IN IF user = <<>>
               THEN [r EXCEPT !.resp = unauthorized,
                              !.calls = @ \cup {"getUserPublicById"}]
               ELSE [r EXCEPT !.resp = JsonUser(200, user[1]),
                              !.calls = @ \cup {"getUserPublicById"}]

\* GET /api/tasks.
tasksGet(sid) ==
  LET a == getAuth(sid)
      r == requireAuth(sid)
  IN IF a.auth = <<>> THEN r
     ELSE [r EXCEPT !.resp = JsonTasks(200, listTasksByUser(a.auth[1].userId)),
                    !.calls = @ \cup {"listTasksByUser"}]

\* POST /api/tasks up to "await readJsonBody(req)".
tasksPostBegin(sid) == requireAuth(sid)

\* Mutant: the row is inserted before the title is validated.
tasksPostBody_InsertFirst(auth, raw) ==
  LET body == readJsonBody(raw)
      title == body.value.title
      task == [id |-> Uuid("task", nextId.task), userId |-> auth.userId,
               title |-> trim(title.str), done |-> FALSE, createdAt |-> nowIso]
  IN IF body.threw THEN Same(Caught(body.msg), {})
     ELSE Out(users, sessions, insertTask(task), [nextId EXCEPT !.task = @ + 1],
              IF title.type # "string" \/ trim(title.str) = <<>>
                THEN JsonError(400, "title is required")
                ELSE JsonTask(201, task),
              {"insertTask"})

\* POST /api/tasks from the moment the body has arrived.
tasksPostBody(auth, raw) ==
  LET body == readJsonBody(raw)
      title == body.value.title
  IN IF body.threw THEN Same(Caught(body.msg), {})
     ELSE IF title.type # "string" \/ trim(title.str) = <<>>
       THEN Same(JsonError(400, "title is required"), {})
     ELSE LET task == [id |-> Uuid("task", nextId.task), userId |-> auth.userId,
                       title |-> trim(title.str), done |-> FALSE,
                       createdAt |-> nowIso]
          IN Out(users, sessions, insertTask(task),
                 [nextId EXCEPT !.task = @ + 1],
                 JsonTask(201, task), {"insertTask"})

\* PATCH /api/tasks/:id up to "await readJsonBody(req)".
taskPatchBegin(sid) == requireAuth(sid)

\* PATCH /api/tasks/:id from the moment the body has arrived.
taskPatchBody(auth, id, raw) ==
  LET body == readJsonBody(raw)
      done == body.value.done
  IN IF body.threw THEN Same(Caught(body.msg), {})
     ELSE IF done.type # "boolean"
       THEN Same(JsonError(400, "done(boolean) is required"), {})
     ELSE LET updated == setDone(auth.userId, id, done.bool)
          IN IF updated.task = <<>>
               THEN Out(users, sessions, updated.tasks, nextId, notFound, {"setDone"})
               ELSE Out(users, sessions, updated.tasks, nextId,
                        JsonTask(200, updated.task[1]), {"setDone"})

\* DELETE /api/tasks/:id.
taskDelete(sid, id) ==
  LET a == getAuth(sid)
      r == requireAuth(sid)
  IN IF a.auth = <<>> THEN r
     ELSE LET del == deleteTask(a.auth[1].userId, id)
          IN [r EXCEPT !.tasks = del.tasks,
                       !.resp = IF del.ok THEN NoContent ELSE notFound,
                       !.calls = @ \cup {"deleteTask"}]

\* ----------------------------------------------------------------- actions

Idle == [op |-> "idle", userId |-> <<>>, sid |-> <<>>, id |-> <<>>]

\* What a client may put in the sid cookie: nothing, a UUID that names no
\* session, or the id of a session created so far (deleted ones included).
SidInputs ==
  {NoSid, NeverIssued} \cup {r.id : r \in sessions} \cup {p[1] : p \in revoked}

\* What a client may put in the path: a UUID that names no task, or the id of a
\* task created so far (deleted ones included).
TaskIdInputs == {NeverIssued} \cup DOMAIN written

Apply(r) ==
  /\ r.nextId.session <= MaxSessions + 1
  /\ r.nextId.task <= MaxTasks + 1
  /\ users' = r.users
  /\ sessions' = r.sessions
  /\ tasks' = r.tasks
  /\ nextId' = r.nextId
  /\ UNCHANGED fileVars

\* The history of a request that went through getAuth.
Rejected(sid) ==
  IF getAuth(sid).expired THEN revoked \cup {<<sid, "expired">>} ELSE revoked

FreeSlots == {k \in 1 .. MaxInflight : inflight[k].op = "idle"}

Park(op, a, id) ==
  LET k == CHOOSE x \in FreeSlots : \A y \in FreeSlots : x <= y
  IN inflight' = [inflight EXCEPT ![k] =
                    [op |-> op, userId |-> a.userId, sid |-> a.sid, id |-> id]]

AuthOf(k) == [userId |-> inflight[k].userId, sid |-> inflight[k].sid]

Init ==
  /\ users = {}
  /\ sessions = {}
  /\ tasks = <<>>
  /\ now = 0
  /\ nextId = [user |-> 1, session |-> 1, task |-> 1]
  /\ inflight = [k \in 1 .. MaxInflight |-> Idle]
  /\ revoked = {}
  /\ signedUp = {}
  /\ written = <<>>
  /\ fileArrays = <<<<>>>>
  /\ fileTasks = 1
  /\ tasksJson = <<>>
  /\ tasksTmp = <<>>
  /\ fileReqs = <<>>

Signup ==
  \E raw \in CredentialBodies :
    LET r == signup(raw)
    IN /\ Apply(r)
       /\ signedUp' = IF r.resp.status = 201
                        THEN signedUp \cup {<<r.resp.setCookie[1].value, r.resp.user[1].id>>}
                        ELSE signedUp
       /\ UNCHANGED <<now, inflight, revoked, written>>

Login ==
  \E raw \in CredentialBodies :
    /\ Apply(login(raw))
    /\ UNCHANGED <<now, inflight, revoked, signedUp, written>>

Logout ==
  \E sid \in SidInputs :
    /\ Apply(logout(sid))
    /\ revoked' = IF getSession(sid) # <<>>
                    THEN revoked \cup {<<sid, "logout">>}
                    ELSE revoked
    /\ UNCHANGED <<now, inflight, signedUp, written>>

Me ==
  \E sid \in SidInputs :
    /\ Apply(me(sid))
    /\ revoked' = Rejected(sid)
    /\ UNCHANGED <<now, inflight, signedUp, written>>

TasksGet ==
  \E sid \in SidInputs :
    /\ Apply(tasksGet(sid))
    /\ revoked' = Rejected(sid)
    /\ UNCHANGED <<now, inflight, signedUp, written>>

TasksPostBegin ==
  \E sid \in SidInputs :
    LET r == tasksPostBegin(sid)
    IN /\ Apply(r)
       /\ revoked' = Rejected(sid)
       /\ IF r.resp.status = 0
            THEN FreeSlots # {} /\ Park("tasksPost", getAuth(sid).auth[1], <<>>)
            ELSE UNCHANGED inflight
       /\ UNCHANGED <<now, signedUp, written>>

TasksPostBody ==
  \E k \in 1 .. MaxInflight, raw \in TitleBodies :
    /\ inflight[k].op = "tasksPost"
    /\ LET r == tasksPostBody(AuthOf(k), raw)
       IN /\ Apply(r)
          /\ written' = IF r.resp.status = 201
                          THEN (r.resp.task[1].id :>
                                  [by |-> inflight[k].userId, done |-> FALSE]) @@ written
                          ELSE written
    /\ inflight' = [inflight EXCEPT ![k] = Idle]
    /\ UNCHANGED <<now, revoked, signedUp>>

TaskPatchBegin ==
  \E sid \in SidInputs, id \in TaskIdInputs :
    LET r == taskPatchBegin(sid)
    IN /\ Apply(r)
       /\ revoked' = Rejected(sid)
       /\ IF r.resp.status = 0
            THEN FreeSlots # {} /\ Park("taskPatch", getAuth(sid).auth[1], id)
            ELSE UNCHANGED inflight
       /\ UNCHANGED <<now, signedUp, written>>

TaskPatchBody ==
  \E k \in 1 .. MaxInflight, raw \in DoneBodies :
    /\ inflight[k].op = "taskPatch"
    /\ LET r == taskPatchBody(AuthOf(k), inflight[k].id, raw)
       IN /\ Apply(r)
          /\ written' = IF r.resp.status = 200
                          THEN [written EXCEPT ![inflight[k].id].done = raw.done.bool]
                          ELSE written
    /\ inflight' = [inflight EXCEPT ![k] = Idle]
    /\ UNCHANGED <<now, revoked, signedUp>>

TaskDelete ==
  \E sid \in SidInputs, id \in TaskIdInputs :
    /\ Apply(taskDelete(sid, id))
    /\ revoked' = Rejected(sid)
    /\ UNCHANGED <<now, inflight, signedUp, written>>

\* Time passes between requests.
Tick ==
  \E d \in TickDays :
    /\ now + d <= MaxTime
    /\ now' = now + d
    /\ UNCHANGED <<users, sessions, tasks, nextId, inflight, revoked, signedUp,
                   written, fileVars>>

Next ==
  \/ Signup
  \/ Login
  \/ Logout
  \/ Me
  \/ TasksGet
  \/ TasksPostBegin
  \/ TasksPostBody
  \/ TaskPatchBegin
  \/ TaskPatchBody
  \/ TaskDelete
  \/ Tick

Spec == Init /\ [][Next]_vars

\* ---------------------------------------------- the file-backed variant
\* The variant of the server that keeps the tasks in a global array and saves
\* it to data/tasks.json: no users, no sessions.  An array is an object: the
\* handlers pass it by reference and PATCH writes into it in place, so the
\* model keeps the arrays by reference.  Every await is a point where other
\* requests run; mkdir, writeFile and rename each take effect in one step at
\* the moment they complete, which is one of the schedules the thread pool
\* of the runtime can produce.

\* readJsonBody of the variant: null for no body, rejects with "Payload too
\* large" and "Invalid JSON".
file_readJsonBody(raw) ==
  CASE raw.kind = "toolarge" ->
         [threw |-> TRUE, msg |-> "Payload too large", value |-> EmptyBody]
    [] raw.kind = "malformed" ->
         [threw |-> TRUE, msg |-> "Invalid JSON", value |-> EmptyBody]
    [] raw.kind = "empty" ->
         [threw |-> FALSE, msg |-> "", value |-> EmptyBody]
    [] OTHER ->
         [threw |-> FALSE, msg |-> "", value |-> raw]

\* What rename rejects with when the temporary file is not there.
RenameError == "ENOENT: no such file or directory, rename"

\* The array the global `tasks` refers to: what GET /api/tasks serves.
file_tasks == fileArrays[fileTasks]

\* tasks.findIndex((t) => t.id === id): 0 stands for -1.
file_findIndex(id) ==
  IF \E i \in 1 .. Len(file_tasks) : file_tasks[i].id = id
    THEN CHOOSE i \in 1 .. Len(file_tasks) :
           /\ file_tasks[i].id = id
           /\ \A j \in 1 .. i - 1 : file_tasks[j].id # id
    ELSE 0

\* A request of the variant.  pc is the await its handler stands at
\* ("mkdir", "writeFile", "rename") or "done"; nextTasks is the array
\* saveTasks was called with; data is the text JSON.stringify made of it;
\* changed tells whether the handler assigned to `tasks` or wrote into it;
\* status is the answer, 0 when there is none.
FileReq(op, pc, nextTasks, changed, status, error) ==
  [op |-> op, pc |-> pc, nextTasks |-> nextTasks, data |-> <<>>,
   changed |-> changed, status |-> status, error |-> error]

\* Requests that end before they reach saveTasks.
FileAnswered(op, changed, status, error) ==
  FileReq(op, "done", 0, changed, status, error)

\* saveTasks(nextTasks) up to its first await, mkdir.
file_saveTasks(op, nextTasks) == FileReq(op, "mkdir", nextTasks, TRUE, 0, "")

\* The ids a client may put in the path: of every task the variant created,
\* and one it never issued.
FileTaskIdInputs ==
  {NeverIssued} \cup {Uuid("task", n) : n \in 2 .. Len(fileArrays)}

FileReceive(req) ==
  /\ Len(fileReqs) < MaxFileRequests
  /\ fileReqs' = Append(fileReqs, req)

\* GET /api/tasks: json(res, 200, { tasks }).
FileTasksGet ==
  /\ FileReceive(FileAnswered("GET", FALSE, 200, ""))
  /\ UNCHANGED <<fileArrays, fileTasks, tasksJson, tasksTmp, mainVars>>

\* POST /api/tasks from the moment the body has arrived to the await in
\* saveTasks.
FileTasksPost ==
  \E raw \in TitleBodies :
    LET body == file_readJsonBody(raw)
        title == body.value.title
        task == [id |-> Uuid("task", Len(fileArrays) + 1),
                 title |-> trim(title.str), done |-> FALSE, createdAt |-> Iso(now)]
    IN /\ IF body.threw
            THEN /\ FileReceive(FileAnswered("POST", FALSE, 400, body.msg))
                 /\ UNCHANGED <<fileArrays, fileTasks>>
          ELSE IF title.type # "string" \/ Len(trim(title.str)) = 0
            THEN /\ FileReceive(FileAnswered("POST", FALSE, 400, "title is required"))
                 /\ UNCHANGED <<fileArrays, fileTasks>>
          ELSE /\ fileArrays' = Append(fileArrays, <<task>> \o file_tasks)
               /\ fileTasks' = Len(fileArrays) + 1
               /\ FileReceive(file_saveTasks("POST", Len(fileArrays) + 1))
       /\ UNCHANGED <<tasksJson, tasksTmp, mainVars>>

\* PATCH /api/tasks/:id from the moment the body has arrived to the await in
\* saveTasks.
FileTaskPatch ==
  \E id \in FileTaskIdInputs, raw \in DoneBodies :
    LET body == file_readJsonBody(raw)
        done == body.value.done
        idx == file_findIndex(id)
    IN /\ IF body.threw
            THEN /\ FileReceive(FileAnswered("PATCH", FALSE, 400, body.msg))
                 /\ UNCHANGED <<fileArrays, fileTasks>>
          ELSE IF done.type # "boolean"
            THEN /\ FileReceive(FileAnswered("PATCH", FALSE, 400,
                                             "done(boolean) is required"))
                 /\ UNCHANGED <<fileArrays, fileTasks>>
          ELSE IF idx = 0
            THEN /\ FileReceive(FileAnswered("PATCH", FALSE, 404, "not found"))
                 /\ UNCHANGED <<fileArrays, fileTasks>>
          ELSE /\ fileArrays' = [fileArrays EXCEPT ![fileTasks][idx].done = done.bool]
               /\ UNCHANGED fileTasks
               /\ FileReceive(file_saveTasks("PATCH", fileTasks))
       /\ UNCHANGED <<tasksJson, tasksTmp, mainVars>>

\* DELETE /api/tasks/:id to the await in saveTasks: `tasks` is assigned the
\* filtered array before the length is compared.
FileTaskDelete ==
  \E id \in FileTaskIdInputs :
    LET Keep(t) == t.id # id
        filtered == SelectSeq(file_tasks, Keep)
    IN /\ fileArrays' = Append(fileArrays, filtered)
       /\ fileTasks' = Len(fileArrays) + 1
       /\ IF Len(filtered) = Len(file_tasks)
            THEN FileReceive(FileAnswered("DELETE", FALSE, 404, "not found"))
            ELSE FileReceive(file_saveTasks("DELETE", Len(fileArrays) + 1))
       /\ UNCHANGED <<tasksJson, tasksTmp, mainVars>>

\* saveTasks: mkdir has completed; JSON.stringify(nextTasks) reads the array
\* as it is now, and writeFile is called with the text.
FileMkdirDone ==
  \E k \in 1 .. Len(fileReqs) :
    /\ fileReqs[k].pc = "mkdir"
    /\ fileReqs' = [fileReqs EXCEPT ![k].pc = "writeFile",
                                    ![k].data = fileArrays[fileReqs[k].nextTasks]]
    /\ UNCHANGED <<fileArrays, fileTasks, tasksJson, tasksTmp, mainVars>>

\* saveTasks: writeFile(tmp, text) has completed.
FileWriteDone ==
  \E k \in 1 .. Len(fileReqs) :
    /\ fileReqs[k].pc = "writeFile"
    /\ tasksTmp' = <<fileReqs[k].data>>
    /\ fileReqs' = [fileReqs EXCEPT ![k].pc = "rename"]
    /\ UNCHANGED <<fileArrays, fileTasks, tasksJson, mainVars>>

\* What the handler answers when saveTasks has returned.
FileSuccess(op) ==
  CASE op = "POST" -> 201
    [] op = "PATCH" -> 200
    [] OTHER -> 204

\* saveTasks: rename(tmp, TASKS_FILE) has completed, and with it the handler.
\* When another request has renamed the temporary file away, rename rejects:
\* POST and PATCH catch it and answer 400 with the message; DELETE has no
\* try, its handler's promise rejects and the request gets no answer.
FileRenameDone ==
  \E k \in 1 .. Len(fileReqs) :
    /\ fileReqs[k].pc = "rename"
    /\ IF tasksTmp # <<>>
         THEN /\ tasksJson' = tasksTmp[1]
              /\ tasksTmp' = <<>>
              /\ fileReqs' = [fileReqs EXCEPT ![k].pc = "done",
                                              ![k].status = FileSuccess(fileReqs[k].op)]
         ELSE /\ UNCHANGED <<tasksJson, tasksTmp>>
              /\ fileReqs' = [fileReqs EXCEPT
                                ![k].pc = "done",
                                ![k].status = IF fileReqs[k].op = "DELETE" THEN 0 ELSE 400,
                                ![k].error = RenameError]
    /\ UNCHANGED <<fileArrays, fileTasks, mainVars>>

NextFile ==
  \/ FileTasksGet
  \/ FileTasksPost
  \/ FileTaskPatch
  \/ FileTaskDelete
  \/ FileMkdirDone
  \/ FileWriteDone
  \/ FileRenameDone

SpecFile == Init /\ [][NextFile]_vars

\* ------------------------------------------------------------------ claims
\* A response is a property of a state and a request: the formulas below range
\* over every request a client can send in a reachable state and over what
\* the handler, the operator the action applies, makes of it.

\* The session row a sid names, read from the table and not through getAuth.
SessionOf(sid) == {s \in sessions : s.id = sid}
Live(sid) == \E s \in SessionOf(sid) : s.expiresAt.iso > now
ExpiredRow(sid) == \E s \in SessionOf(sid) : s.expiresAt.iso <= now
Unauthenticated(sid) == sid = NoSid \/ SessionOf(sid) = {} \/ ExpiredRow(sid)
UserOf(sid) == (CHOOSE s \in SessionOf(sid) : TRUE).userId

\* The { userId, sid } a handler may hold when its body arrives: of a request
\* that is waiting, or of one that authenticates now.
Parked(op) == {k \in 1 .. MaxInflight : inflight[k].op = op}
AuthsHeld(op) ==
  {AuthOf(k) : k \in Parked(op)}
    \cup {[userId |-> UserOf(sid), sid |-> sid] : sid \in {x \in SidInputs : Live(x)}}

\* What each authenticated handler does up to its first await, or to its end.
FirstSteps(sid) ==
  {me(sid), tasksGet(sid), tasksPostBegin(sid), taskPatchBegin(sid)}
    \cup {taskDelete(sid, id) : id \in TaskIdInputs}

TaskCalls == {"listTasksByUser", "insertTask", "setDone", "deleteTask"}

Normal(email) == toLowerCase(trim(email))

DoneBody(b) == JsonBody(JUndefined, JUndefined, JUndefined, JBool(b))
Credentials(e, p) == JsonBody(JStr(e), JStr(p), JUndefined, JUndefined)

OwnedByOther(id, userId) ==
  \E i \in 1 .. Len(tasks) : tasks[i].id = id /\ tasks[i].userId # userId

\* C1: GET /api/tasks answered 200 for a session of user B lists only rows
\* whose userId is B, and each of them was created under a session of B: a
\* task created under a session of another user A is never in the list.
C1_ListingIsolation ==
  \A sid \in SidInputs :
    LET r == tasksGet(sid)
    IN r.resp.status = 200 =>
         /\ SessionOf(sid) # {}
         /\ \A i \in 1 .. Len(r.resp.tasks) :
              /\ r.resp.tasks[i].userId = UserOf(sid)
              /\ written[r.resp.tasks[i].id].by = UserOf(sid)

\* C1 witness: user B lists successfully while another user's task is stored.
C1_Witness ==
  \E sid \in SidInputs :
    /\ Live(sid)
    /\ tasksGet(sid).resp.status = 200
    /\ \E i \in 1 .. Len(tasks) : written[tasks[i].id].by # UserOf(sid)

\* C2: with a live session of user B, DELETE of a task owned by another user A,
\* and PATCH of it with a body { done: boolean }, answer 404; whatever the body,
\* the tables stay as they are and the response is the one the same request
\* gets for an id that names no task.
C2_ForeignTaskIs404 ==
  /\ \A sid \in SidInputs, id \in TaskIdInputs :
       (Live(sid) /\ OwnedByOther(id, UserOf(sid))) =>
         LET d == taskDelete(sid, id)
         IN /\ d.resp.status = 404
            /\ <<d.users, d.sessions, d.tasks>> = store
            /\ d.resp = taskDelete(sid, NeverIssued).resp
  /\ \A a \in AuthsHeld("taskPatch"), id \in TaskIdInputs, raw \in DoneBodies :
       OwnedByOther(id, a.userId) =>
         LET p == taskPatchBody(a, id, raw)
         IN /\ (raw.kind = "json" /\ raw.done.type = "boolean" => p.resp.status = 404)
            /\ <<p.users, p.sessions, p.tasks>> = store
            /\ p.resp = taskPatchBody(a, NeverIssued, raw).resp

\* C2 witness: a PATCH that authenticated as B waits for its body, aimed at a
\* task of A, and B's DELETE of that task is answered 404.
C2_Witness ==
  \E k \in Parked("taskPatch") :
    /\ OwnedByOther(inflight[k].id, inflight[k].userId)
    /\ Live(inflight[k].sid)
    /\ taskDelete(inflight[k].sid, inflight[k].id).resp.status = 404

\* C3: the sid cookie of a signup answered 201, presented to GET /api/me while
\* its session is live, is answered 200, and a 200 for it carries the id of
\* the user that signup created.
C3_SignupCookieResolvesToCreatedUser ==
  \A p \in signedUp :
    LET r == me(p[1])
    IN /\ Live(p[1]) => r.resp.status = 200
       /\ r.resp.status = 200 => r.resp.user[1].id = p[2]

\* C3 witness: two users signed up, and the second signup's cookie resolves.
C3_Witness ==
  \E p \in signedUp :
    /\ me(p[1]).resp.status = 200
    /\ \E q \in signedUp : q[2][2] < p[2][2]

\* C4: a signup whose trimmed, lower-cased email is the email of a stored user
\* creates no user row and no session row and sets no cookie, whatever its
\* body; with a password that passes validation it is answered 409.
C4_DuplicateEmailIs409 ==
  \A raw \in CredentialBodies :
    (/\ raw.kind = "json"
     /\ raw.email.type = "string"
     /\ \E u \in users : u.email = Normal(raw.email.str)) =>
      LET r == signup(raw)
      IN /\ r.users = users
         /\ r.sessions = sessions
         /\ r.resp.setCookie = <<>>
         /\ (raw.password.type = "string" /\ Len(raw.password.str) >= MinPasswordLen
               => r.resp.status = 409)

\* C4 witness: a@x is stored; " A@X " and "a@x" are both answered 409.
C4_Witness ==
  /\ \E u \in users : u.email = EmailA
  /\ signup(Credentials(EmailAShouted, PwGood)).resp.status = 409
  /\ signup(Credentials(EmailA, PwGood)).resp.status = 409

\* C5: an authenticated endpoint called with a sid whose row has expiresAt <=
\* now (or an expiresAt that does not parse) answers 401 and the row is gone
\* when the lookup returns; getSession for a sid rejected so returns none.
C5_ExpiredSessionRejectedAndDeleted ==
  /\ \A sid \in SidInputs :
       (\E s \in SessionOf(sid) :
          \/ ~NumberIsFinite(DateParse(s.expiresAt))
          \/ DateParse(s.expiresAt) <= now) =>
         \A r \in FirstSteps(sid) :
           /\ r.resp.status = 401
           /\ \A s \in r.sessions : s.id # sid
  /\ \A p \in revoked : p[2] = "expired" => getSession(p[1]) = <<>>

\* C5 witness: a session was presented after it expired and was rejected.
C5_Witness == \E p \in revoked : p[2] = "expired"

\* C6: a sid that getAuth rejected as expired, or that logout deleted, is never
\* authenticated again.
C6_NoReturnToActive ==
  \A p \in revoked :
    /\ getAuth(p[1]).auth = <<>>
    /\ \A r \in FirstSteps(p[1]) : r.resp.status = 401

\* C6 witness: the session of a signup was logged out, its user has logged in
\* again and holds a live session, and the old sid stays rejected.
C6_Witness ==
  \E p \in revoked, q \in signedUp :
    /\ p[2] = "logout"
    /\ q[1] = p[1]
    /\ \E s \in sessions : s.userId = q[2] /\ Live(s.id)
    /\ me(p[1]).resp.status = 401

\* C7: login answers 200, adds a session or sets a cookie only for the email
\* of a stored user and a password whose hash under that user's salt is the
\* stored hash, and then the session is that user's and the cookie names it;
\* for a stored email and any other (non-empty) password it answers 401, adds
\* no session and sets no cookie.
C7_LoginOnlyWithMatchingHash ==
  \A raw \in CredentialBodies :
    LET r == login(raw)
        strings == /\ raw.kind = "json"
                   /\ raw.email.type = "string"
                   /\ raw.password.type = "string"
        known == IF strings
                   THEN {u \in users : u.email = Normal(raw.email.str)}
                   ELSE {}
        matching == {u \in known :
                       hashPassword(raw.password.str, u.salt) = u.passwordHash}
    IN /\ (r.resp.status = 200 \/ r.sessions # sessions \/ r.resp.setCookie # <<>>) =>
            /\ matching # {}
            /\ r.resp.status = 200
            /\ r.resp.setCookie # <<>>
            /\ \E u \in matching, s \in r.sessions :
                 /\ r.sessions \ sessions = {s}
                 /\ sessions \subseteq r.sessions
                 /\ s.id = r.resp.setCookie[1].value
                 /\ s.userId = u.id
       /\ (known # {} /\ raw.password.str # <<>> /\ matching = {}) =>
            /\ r.resp.status = 401
            /\ r.sessions = sessions
            /\ r.resp.setCookie = <<>>

\* C7 witness: a session created by login is stored (no signup issued it),
\* and a password one character short of the right one is answered 401.
C7_Witness ==
  /\ \E s \in sessions : \A q \in signedUp : q[1] # s.id
  /\ \E u \in users : u.email = EmailA
  /\ login(Credentials(EmailAShouted, PwNear)).resp.status = 401

\* C8: a listing shows for each task the done value of the latest PATCH
\* answered 200 (false, the value it was created with, before any), so never
\* a value no PATCH wrote; a PATCH by the owner with the value the task has is
\* answered 200 with the task and changes nothing.
C8_ReadsReflectLatestPatch ==
  /\ \A sid \in SidInputs :
       LET r == tasksGet(sid)
       IN r.resp.status = 200 =>
            \A i \in 1 .. Len(r.resp.tasks) :
              r.resp.tasks[i].done = written[r.resp.tasks[i].id].done
  /\ \A a \in AuthsHeld("taskPatch"), i \in 1 .. Len(tasks) :
       tasks[i].userId = a.userId =>
         LET p == taskPatchBody(a, tasks[i].id, DoneBody(tasks[i].done = 1))
         IN /\ p.resp.status = 200
            /\ p.resp.task = <<TaskOfRow(tasks[i])>>
            /\ <<p.users, p.sessions, p.tasks>> = store

\* C8 witness: a task was patched to true and its owner's listing shows true.
C8_Witness ==
  \E sid \in SidInputs :
    LET r == tasksGet(sid)
    IN /\ r.resp.status = 200
       /\ \E i \in 1 .. Len(r.resp.tasks) :
            r.resp.tasks[i].done /\ written[r.resp.tasks[i].id].done

\* C9: GET /api/me, GET and POST /api/tasks, PATCH and DELETE /api/tasks/:id
\* with no sid, a sid that names no session or the sid of an expired session
\* answer 401 "unauthorized" whatever the id, before the body is awaited (the
\* request is answered in its first step), and call no task operation.
C9_UnauthenticatedIs401First ==
  \A sid \in SidInputs :
    Unauthenticated(sid) =>
      \A r \in FirstSteps(sid) :
        /\ r.resp = unauthorized
        /\ r.calls \cap TaskCalls = {}
        /\ r.tasks = tasks
        /\ r.users = users
        /\ r.nextId = nextId

\* C9 witness: a task is stored, and DELETE of it with the sid of an expired
\* session is answered 401.
C9_Witness ==
  \E sid \in SidInputs :
    /\ ExpiredRow(sid)
    /\ tasks # <<>>
    /\ taskDelete(sid, tasks[1].id).resp.status = 401
    /\ tasksPostBegin(NoSid).resp.status = 401

\* Every request a client can send now, with the sid it carries and what its
\* handler (for POST and PATCH of tasks: each of its two steps) makes of it.
Answers ==
  {<<NoSid, signup(raw)>> : raw \in CredentialBodies}
    \cup {<<NoSid, login(raw)>> : raw \in CredentialBodies}
    \cup {<<sid, logout(sid)>> : sid \in SidInputs}
    \cup UNION {{<<sid, r>> : r \in FirstSteps(sid)} : sid \in SidInputs}
    \cup {<<a.sid, tasksPostBody(a, raw)>> :
            a \in AuthsHeld("tasksPost"), raw \in TitleBodies}
    \cup UNION {{<<a.sid, taskPatchBody(a, id, raw)>> :
                   a \in AuthsHeld("taskPatch"), raw \in DoneBodies} :
                  id \in TaskIdInputs}

\* C10 as claimed: a request answered 400 or 401 leaves the three tables as
\* they were.
C10_NoMutationOn400Or401 ==
  \A x \in Answers :
    x[2].resp.status \in {400, 401} =>
      <<x[2].users, x[2].sessions, x[2].tasks>> = store

\* C10 amended: a request answered 400 or 401 leaves users and tasks as they
\* were, and sessions too, except that a 401 for the sid of an expired session
\* has deleted that session's row; a handler that goes on to await its body
\* has changed nothing.
C10_NoMutationBut401DeletesExpired ==
  \A x \in Answers :
    LET sid == x[1]
        r == x[2]
    IN /\ r.resp.status \in {400, 401} =>
            /\ r.users = users
            /\ r.tasks = tasks
            /\ \/ r.sessions = sessions
               \/ /\ r.resp.status = 401
                  /\ ExpiredRow(sid)
                  /\ r.sessions = sessions \ SessionOf(sid)
       /\ r.resp.status = 0 => <<r.users, r.sessions, r.tasks>> = store

\* C10 witness: GET /api/me with the sid of an expired session is answered
\* 401 and leaves one session row fewer.
C10_Witness ==
  \E sid \in SidInputs :
    /\ ExpiredRow(sid)
    /\ me(sid).resp.status = 401
    /\ Cardinality(me(sid).sessions) + 1 = Cardinality(sessions)
    /\ signup(EmptyBody).resp.status = 400

\* The bodies readJsonBody throws on, and the messages of what it and the
\* store throw.
ThrowingBodies == {MalformedBody, TooLargeBody}
ExceptionTexts ==
  {readJsonBody(raw).msg : raw \in ThrowingBodies} \cup {UniqueEmailError}

\* What the four handlers that read a body make of the body raw, for every
\* request that is at the point where its body arrives.
BodyAnswers(raw) ==
  {signup(raw), login(raw)}
    \cup {tasksPostBody(a, raw) : a \in AuthsHeld("tasksPost")}
    \cup {taskPatchBody(a, id, raw) :
            a \in AuthsHeld("taskPatch"), id \in TaskIdInputs}

\* C11 as claimed: signup, login, authenticated POST /api/tasks and
\* authenticated PATCH /api/tasks/:id answer a body that is not well-formed
\* JSON with a status from 400 to 499 and leave the three tables as they were.
C11_MalformedJsonIs400Class ==
  \A r \in BodyAnswers(MalformedBody) :
    /\ r.resp.status \in 400 .. 499
    /\ <<r.users, r.sessions, r.tasks>> = store

\* C12 as claimed: every response with status 400, 401, 404, 409 or 500 is
\* JSON with a non-empty error string.
C12_FailuresCarryJsonError ==
  \A x \in Answers :
    x[2].resp.status \in {400, 401, 404, 409, 500} =>
      /\ x[2].resp.ctype = "application/json"
      /\ x[2].resp.error # ""

\* C13 as claimed: a request whose body makes readJsonBody throw (text that
\* is not JSON, more than the limit) is answered 500 with an error that is not
\* the message of the exception.
C13_InternalErrorIsGeneric ==
  \A raw \in ThrowingBodies :
    \A r \in BodyAnswers(raw) :
      /\ r.resp.status = 500
      /\ r.resp.error \notin ExceptionTexts

\* C14: POST /api/logout answers 204 with Set-Cookie sid=; Max-Age=0 for no
\* cookie, an unknown sid, an expired sid and an active sid alike; it leaves
\* no session row with the presented id, removes no other row and touches no
\* user or task; for a sid that names no row (so also after a first logout)
\* it leaves the store as it is.
C14_LogoutAlways204AndIdempotent ==
  \A sid \in SidInputs :
    LET r == logout(sid)
    IN /\ r.resp = setCookie(NoContent, <<>>, <<0>>)
       /\ \A s \in r.sessions : s.id # sid
       /\ r.sessions = sessions \ SessionOf(sid)
       /\ r.users = users
       /\ r.tasks = tasks
       /\ SessionOf(sid) = {} => <<r.users, r.sessions, r.tasks>> = store
       /\ <<sid, "logout">> \in revoked => <<r.users, r.sessions, r.tasks>> = store

\* C14 witness: one session was logged out, the row of an expired one is
\* still stored, and logout answers 204 for both and for no cookie.
C14_Witness ==
  \E p \in revoked, sid \in SidInputs :
    /\ p[2] = "logout"
    /\ ExpiredRow(sid)
    /\ logout(sid).resp.status = 204
    /\ logout(p[1]).resp.status = 204
    /\ logout(NoSid).resp.status = 204

TaskIds(rows) == {rows[i].id : i \in 1 .. Len(rows)}

\* C15, the request: for a request that authenticated and whose body has a
\* title that is a string, non-empty after trim(), POST /api/tasks answers
\* 201 and adds exactly one row, with a fresh id, done = 0, the trimmed title
\* and the userId of the session's user.
C15_PostInsertsOneTask ==
  \A a \in AuthsHeld("tasksPost"), raw \in TitleBodies :
    (raw.kind = "json" /\ raw.title.type = "string" /\ trim(raw.title.str) # <<>>) =>
      LET r == tasksPostBody(a, raw)
          row == r.tasks[Len(r.tasks)]
      IN /\ r.resp.status = 201
         /\ Len(r.tasks) = Len(tasks) + 1
         /\ SubSeq(r.tasks, 1, Len(tasks)) = tasks
         /\ row.id \notin TaskIds(tasks)
         /\ row.done = 0
         /\ row.title = trim(raw.title.str)
         /\ row.userId = a.userId
         /\ r.resp.task = <<TaskOfRow(row)>>
         /\ ~r.resp.task[1].done
         /\ r.users = users
         /\ r.sessions = sessions

\* C15, afterwards: a listing with a live session shows every stored task of
\* the session's user.
C15_OwnerListsEveryTask ==
  \A sid \in SidInputs :
    Live(sid) =>
      LET r == tasksGet(sid)
      IN /\ r.resp.status = 200
         /\ \A i \in 1 .. Len(tasks) :
              tasks[i].userId = UserOf(sid) =>
                \E j \in 1 .. Len(r.resp.tasks) : r.resp.tasks[j] = TaskOfRow(tasks[i])

\* C15, until: a stored task leaves the table only in a step that is a DELETE
\* of it answered 204 with a live session of its owner.
C15_RowLeavesOnlyByOwnersDelete ==
  \A i \in 1 .. Len(tasks) :
    tasks[i].id \notin TaskIds(tasks') =>
      \E sid \in SidInputs :
        /\ Live(sid)
        /\ UserOf(sid) = tasks[i].userId
        /\ taskDelete(sid, tasks[i].id).resp.status = 204
        /\ tasks' = taskDelete(sid, tasks[i].id).tasks

\* C15: POST /api/tasks with an active session and a non-blank string title
\* answers 201 and inserts exactly one task with done false, the trimmed title
\* and the session's user; every later listing by that user contains it until
\* the owner deletes it.
C15_PostCreatesTaskThatStaysListed ==
  /\ [](C15_PostInsertsOneTask /\ C15_OwnerListsEveryTask)
  /\ [][C15_RowLeavesOnlyByOwnersDelete]_vars

\* C15 witness: of two tasks created, one was deleted and the other, with the
\* trimmed title, is in its owner's listing.
C15_Witness ==
  \E sid \in SidInputs :
    /\ Live(sid)
    /\ Cardinality(DOMAIN written) > Len(tasks)
    /\ \E j \in 1 .. Len(tasksGet(sid).resp.tasks) :
         /\ tasksGet(sid).resp.tasks[j].title = <<"h", "i">>
         /\ ~tasksGet(sid).resp.tasks[j].done

Without(rows, i) == SubSeq(rows, 1, i - 1) \o SubSeq(rows, i + 1, Len(rows))

\* The ids of the tasks that were created and are stored no more.
Gone == DOMAIN written \ TaskIds(tasks)

\* C16, the request: DELETE of a stored task with a live session of its owner
\* answers 204 and leaves the table without that row, every other row as it
\* was and in place, and users and sessions untouched.
C16_DeleteRemovesExactlyThatTask ==
  \A sid \in SidInputs, i \in 1 .. Len(tasks) :
    (Live(sid) /\ tasks[i].userId = UserOf(sid)) =>
      LET d == taskDelete(sid, tasks[i].id)
      IN /\ d.resp = NoContent
         /\ d.tasks = Without(tasks, i)
         /\ d.users = users
         /\ d.sessions = sessions

\* C16, afterwards: a task that is gone is in no listing, and DELETE of its id
\* and PATCH of its id with a boolean done answer 404 and change nothing.
C16_GoneTaskIs404 ==
  \A id \in Gone :
    /\ \A sid \in SidInputs :
         /\ \A j \in 1 .. Len(tasksGet(sid).resp.tasks) :
              tasksGet(sid).resp.tasks[j].id # id
         /\ Live(sid) =>
              /\ taskDelete(sid, id).resp.status = 404
              /\ taskDelete(sid, id).tasks = tasks
    /\ \A a \in AuthsHeld("taskPatch"), b \in BOOLEAN :
         /\ taskPatchBody(a, id, DoneBody(b)).resp.status = 404
         /\ taskPatchBody(a, id, DoneBody(b)).tasks = tasks

\* C16, never again: no step stores a row with the id of a task that is gone.
C16_GoneStaysGone == \A id \in Gone : id \notin TaskIds(tasks')

\* C16: DELETE /api/tasks/:id by the owner answers 204 and removes exactly
\* that task; the task never appears in a listing again and every further
\* PATCH or DELETE of its id answers 404.
C16_DeleteIsExactAndFinal ==
  /\ [](C16_DeleteRemovesExactlyThatTask /\ C16_GoneTaskIs404)
  /\ [][C16_GoneStaysGone]_vars

\* C16 witness: a user deleted one of their two tasks; the other is stored,
\* and a second DELETE of the first is answered 404.
C16_Witness ==
  \E id \in Gone, sid \in SidInputs :
    /\ Live(sid)
    /\ UserOf(sid) = written[id].by
    /\ \E i \in 1 .. Len(tasks) : tasks[i].userId = UserOf(sid)
    /\ taskDelete(sid, id).resp.status = 404

\* C17, identity: no two stored tasks have the same id.
C17_TaskIdsAreUnique == Cardinality(TaskIds(tasks)) = Len(tasks)

\* C17, the step: a task stored before and after a step has the same userId,
\* title and createdAt; its done differs only when the step is the body step
\* of a PATCH of that id that authenticated as the task's owner.
C17_StepKeepsAllButDone ==
  \A i \in 1 .. Len(tasks), j \in 1 .. Len(tasks') :
    tasks[i].id = tasks'[j].id =>
      /\ tasks'[j].userId = tasks[i].userId
      /\ tasks'[j].title = tasks[i].title
      /\ tasks'[j].createdAt = tasks[i].createdAt
      /\ tasks'[j].done # tasks[i].done =>
           \E k \in Parked("taskPatch") :
             /\ inflight[k].id = tasks[i].id
             /\ inflight[k].userId = tasks[i].userId
             /\ inflight'[k] = Idle
             /\ tasks' = taskPatchBody(AuthOf(k), inflight[k].id,
                                       DoneBody(tasks'[j].done = 1)).tasks

\* C17: from its insert to its deletion a task keeps its id, userId, title
\* and createdAt, and its done changes only through a PATCH /api/tasks/:id
\* authenticated as the owner.
C17_OnlyDoneChangesAndOnlyByOwnerPatch ==
  /\ []C17_TaskIdsAreUnique
  /\ [][C17_StepKeepsAllButDone]_vars

\* C17 witness: a task created on an earlier day has been patched to done.
C17_Witness ==
  \E i \in 1 .. Len(tasks) :
    /\ tasks[i].done = 1
    /\ tasks[i].createdAt.iso < now
    /\ tasks[i].title = <<"h", "i">>

UserIds == {u.id : u \in users}

\* C18, references: every session row and every task row names a stored user.
C18_RowsReferenceUsers ==
  /\ \A s \in sessions : s.userId \in UserIds
  /\ \A i \in 1 .. Len(tasks) : tasks[i].userId \in UserIds

\* C18, users stay: every user row stored before a step is stored, the same,
\* after it.
C18_UsersOnlyGrow == users \subseteq users'

\* C18: in every reachable state every session and task row has the userId of
\* an existing user row, and no request deletes or modifies a user row.
C18_ForeignKeysHoldAndUsersStay ==
  /\ []C18_RowsReferenceUsers
  /\ [][C18_UsersOnlyGrow]_vars

\* C18 witness: two users, each the owner of a task, and a stored session.
C18_Witness ==
  /\ Cardinality(users) = 2
  /\ Len(tasks) = 2
  /\ tasks[1].userId # tasks[2].userId
  /\ sessions # {}

\* C19, creation: every stored session expires SessionDays after it was
\* created, and a session signup or login creates now is created now.
C19_ExpiresSevenDaysAfterCreation ==
  /\ \A s \in sessions : s.expiresAt.iso = s.createdAt.iso + SessionDays
  /\ \A raw \in CredentialBodies :
       \A s \in (signup(raw).sessions \cup login(raw).sessions) \ sessions :
         s.createdAt = Iso(now) /\ s.expiresAt = Iso(now + SessionDays)

\* C19, use: getAuth accepts a sid, and an authenticated endpoint does not
\* answer it 401, exactly when its row is stored and now < its expiresAt.
C19_AuthenticatesExactlyBeforeExpiry ==
  \A sid \in SidInputs :
    LET valid == \E s \in SessionOf(sid) : now < s.expiresAt.iso
    IN /\ getAuth(sid).auth # <<>> <=> valid
       /\ \A r \in FirstSteps(sid) : r.resp.status # 401 <=> valid

\* C19, no refresh: a session stored before and after a step is the same row.
C19_SessionRowsNeverChange ==
  \A s \in sessions, t \in sessions' : s.id = t.id => t = s

\* C19: a session's expiresAt is its creation time plus 7 days and no request
\* changes it; the session authenticates a request at time t exactly when its
\* row exists and t < expiresAt.
C19_FixedSevenDayExpiry ==
  /\ [](C19_ExpiresSevenDaysAfterCreation /\ C19_AuthenticatesExactlyBeforeExpiry)
  /\ [][C19_SessionRowsNeverChange]_vars

\* C19 witness: a session created on day 6 is accepted beside one created on
\* day 0, which is on its last day.
C19_Witness ==
  \E s \in sessions, t \in sessions :
    /\ s.createdAt.iso > 0
    /\ t.createdAt.iso = 0
    /\ getAuth(s.id).auth # <<>>
    /\ getAuth(t.id).auth # <<>>
    /\ now + 1 = t.expiresAt.iso

\* C20: in every GET /api/tasks answered 200, a task that comes earlier in the
\* list has a createdAt greater than or equal to that of each later one.
C20_ListingNewestFirst ==
  \A sid \in SidInputs :
    LET r == tasksGet(sid)
    IN r.resp.status = 200 =>
         \A i \in 1 .. Len(r.resp.tasks), j \in 1 .. Len(r.resp.tasks) :
           i < j => r.resp.tasks[i].createdAt.iso >= r.resp.tasks[j].createdAt.iso

\* C20 witness: a listing of two tasks created on different days, the later
\* one first, although it was inserted second.
C20_Witness ==
  \E sid \in SidInputs :
    LET r == tasksGet(sid)
    IN /\ r.resp.status = 200
       /\ Len(r.resp.tasks) = 2
       /\ r.resp.tasks[1].createdAt.iso > r.resp.tasks[2].createdAt.iso
       /\ r.resp.tasks[1].id = tasks[2].id

\* An email in trimmed lower-case form, told from its characters: no space at
\* either end and no character that lower-casing would change.
IsTrimmedLowerCase(e) ==
  /\ e # <<>>
  /\ ~IsSpace(e[1])
  /\ ~IsSpace(e[Len(e)])
  /\ \A i \in 1 .. Len(e) : LowerOf(e[i]) = e[i]

\* The same, for the email of a request: what is left between the spaces at
\* its ends, character by character in lower case, is e.
NormalizesTo(given, e) ==
  \E a \in 0 .. Len(given), b \in 0 .. Len(given) :
    /\ a + Len(e) + b = Len(given)
    /\ \A i \in 1 .. a : IsSpace(given[i])
    /\ \A i \in 1 .. b : IsSpace(given[a + Len(e) + i])
    /\ \A i \in 1 .. Len(e) : LowerOf(given[a + i]) = e[i]

\* C21: the handler of a signup reads nothing before its body has arrived and
\* awaits nothing after, so concurrent signups are Signup steps in some order.
\* In every state they reach, every stored email is in trimmed lower-case
\* form, no two user rows share an email, every user row was created by
\* exactly one signup answered 201, and a further signup with a valid password
\* and an email that normalizes to a stored one is answered 409, one whose
\* email normalizes to none 201.
C21_ConcurrentSignupsOneWinner ==
  /\ \A u \in users : IsTrimmedLowerCase(u.email)
  /\ \A u \in users, v \in users : u.email = v.email => u = v
  /\ \A u \in users : Cardinality({p \in signedUp : p[2] = u.id}) = 1
  /\ \A p \in signedUp : p[2] \in {u.id : u \in users}
  /\ \A raw \in CredentialBodies :
       (/\ raw.kind = "json"
        /\ raw.email.type = "string"
        /\ \E i \in 1 .. Len(raw.email.str) : ~IsSpace(raw.email.str[i])
        /\ raw.password.type = "string"
        /\ Len(raw.password.str) >= MinPasswordLen) =>
         LET r == signup(raw)
             taken == \E u \in users : NormalizesTo(raw.email.str, u.email)
         IN /\ taken => r.resp.status = 409 /\ r.users = users
            /\ ~taken =>
                 /\ r.resp.status = 201
                 /\ \E u \in r.users \ users :
                      /\ r.users = users \cup {u}
                      /\ NormalizesTo(raw.email.str, u.email)
                      /\ IsTrimmedLowerCase(u.email)

\* C21 witness: signups for " A@X ", "a@x" and "b@x" have run: two were
\* answered 201, and the emails that normalize to a@x get 409 now.
C21_Witness ==
  /\ Cardinality(users) = 2
  /\ Cardinality(signedUp) = 2
  /\ signup(Credentials(EmailAShouted, PwGood)).resp.status = 409
  /\ signup(Credentials(EmailB, PwGood)).resp.status = 409

\* C22 as claimed: a POST /api/tasks or PATCH /api/tasks/:id that authenticated
\* and awaits its body performs no insert and no update once the session that
\* authorised it is deleted or expired: whatever body arrives, its body step
\* leaves the tasks as they are.
C22_NoTaskMutationAfterSessionEnds ==
  /\ \A k \in Parked("tasksPost"), raw \in TitleBodies :
       ~Live(inflight[k].sid) =>
         /\ tasksPostBody(AuthOf(k), raw).tasks = tasks
         /\ tasksPostBody(AuthOf(k), raw).calls \cap TaskCalls = {}
  /\ \A k \in Parked("taskPatch"), raw \in DoneBodies :
       ~Live(inflight[k].sid) =>
         /\ taskPatchBody(AuthOf(k), inflight[k].id, raw).tasks = tasks
         /\ taskPatchBody(AuthOf(k), inflight[k].id, raw).calls \cap TaskCalls = {}
  /\ \A sid \in SidInputs, id \in TaskIdInputs :
       ~Live(sid) => taskDelete(sid, id).tasks = tasks

\* C23 as claimed: a signup, whichever of its storage calls fails or none,
\* is either answered 201 and has inserted one user row and one session row
\* of that user, or is not answered 201 and has inserted neither.
C23_SignupAllOrNothing ==
  \A raw \in CredentialBodies, fault \in StorageFaults :
    LET r == signupOnFault(raw, fault)
    IN IF r.resp.status = 201
         THEN \E u \in r.users \ users, s \in r.sessions \ sessions :
                /\ r.users = users \cup {u}
                /\ r.sessions = sessions \cup {s}
                /\ s.userId = u.id
         ELSE r.users = users /\ r.sessions = sessions

\* C24, creation: a login answered 200 and a signup answered 201 leave every
\* stored session row as it is and add exactly one row.
C24_LoginAddsOneSession ==
  \A raw \in CredentialBodies :
    \A r \in {login(raw), signup(raw)} :
      r.resp.status \in {200, 201} =>
        /\ sessions \subseteq r.sessions
        /\ Cardinality(r.sessions \ sessions) = 1
        /\ \A s \in r.sessions \ sessions : \A t \in sessions : t.id # s.id

\* C24, logout: the rows logout removes are rows with the sid presented;
\* every other row is left as it is.
C24_LogoutRemovesOnlyItsSession ==
  \A sid \in SidInputs :
    /\ logout(sid).sessions \subseteq sessions
    /\ \A s \in sessions \ logout(sid).sessions : s.id = sid
    /\ Cardinality(sessions \ logout(sid).sessions) <= 1

\* C24, the step: a session that authenticates before a step in which no time
\* passes authenticates after it, unless the step is the logout of its sid.
C24_OtherSessionsStayValid ==
  \A s \in sessions :
    (Live(s.id) /\ now' = now) =>
      \/ s \in sessions' /\ (getAuth(s.id).auth # <<>>)'
      \/ sessions' = logout(s.id).sessions

\* C24: a successful login or signup adds exactly one session row and leaves
\* every existing session unchanged and valid; logout deletes at most the
\* session whose id is presented, and the other sessions of the user still
\* authenticate.
C24_SessionsAreIndependent ==
  /\ [](C24_LoginAddsOneSession /\ C24_LogoutRemovesOnlyItsSession)
  /\ [][C24_OtherSessionsStayValid]_vars

\* C24 witness: a user holds two live sessions, one from signup and one from a
\* later login, and the logout of one leaves exactly the other.
C24_Witness ==
  \E s \in sessions, t \in sessions :
    /\ s.id # t.id
    /\ s.userId = t.userId
    /\ s.createdAt.iso < t.createdAt.iso
    /\ Live(s.id)
    /\ Live(t.id)
    /\ logout(s.id).sessions = {t}

\* C25: for a login whose email is a non-blank string and whose password is
\* a non-empty string, the answer to an email of no stored user and the
\* answer to the email of a stored user with a password whose hash is not the
\* stored one are one and the same response: 401 { error: "invalid
\* credentials" }, no Set-Cookie; both leave the store as it is.
C25_LoginDoesNotRevealEmail ==
  \A raw \in CredentialBodies :
    (/\ raw.kind = "json"
     /\ raw.email.type = "string"
     /\ \E i \in 1 .. Len(raw.email.str) : ~IsSpace(raw.email.str[i])
     /\ raw.password.type = "string"
     /\ raw.password.str # <<>>) =>
      LET r == login(raw)
          known == {u \in users : NormalizesTo(raw.email.str, u.email)}
          matching == {u \in known :
                         hashPassword(raw.password.str, u.salt) = u.passwordHash}
      IN matching = {} =>
           /\ r.resp = JsonError(401, "invalid credentials")
           /\ r.resp.setCookie = <<>>
           /\ <<r.users, r.sessions, r.tasks>> = store
           /\ r.nextId = nextId

\* C25 witness: a@x is registered and b@x is not; b@x with any password and
\* a@x with a wrong one get the same response.
C25_Witness ==
  /\ \E u \in users : u.email = EmailA
  /\ \A u \in users : u.email # EmailB
  /\ login(Credentials(EmailB, PwGood)).resp.status = 401
  /\ login(Credentials(EmailB, PwGood)).resp = login(Credentials(EmailA, PwShort)).resp

\* C26 as claimed, of the file-backed variant: when every request received
\* has completed, data/tasks.json holds the list GET /api/tasks serves, and
\* every request that changed the list in memory was answered 200, 201 or 204.
C26_FileEqualsMemoryWhenQuiet ==
  (\A k \in 1 .. Len(fileReqs) : fileReqs[k].pc = "done") =>
    /\ tasksJson = file_tasks
    /\ \A k \in 1 .. Len(fileReqs) :
         fileReqs[k].changed => fileReqs[k].status \in {200, 201, 204}

====
